---- MODULE Spec2Model ----
(***************************************************************************)
(* URL shortener: short-code allocation, cache-aside resolution and the    *)
(* Redis-backed rate limiter.                                              *)
(*                                                                         *)
(* State: the PostgreSQL table urls, the Redis keyspace (url:<code>        *)
(* entries and ratelimit:<ip>:<path> counters), the wall clock, and the    *)
(* in-flight request handlers.  A handler suspends at every await of a     *)
(* store or cache call; one action is the call together with the           *)
(* handler's continuation up to its next await.  Every store call may      *)
(* reject (query rethrows) and every cache call may throw (the helpers     *)
(* catch).  Time is in seconds.                                            *)
(*                                                                         *)
(* The table url_analytics is left out: it is written only by the detached *)
(* recordAnalytics task, whose result is discarded, and no modelled        *)
(* operation reads it.                                                     *)
(***************************************************************************)
EXTENDS Integers, Sequences, FiniteSets, TLC

VARIABLES
    urls,        \* table urls: sequence of rows, in insertion order
    urlCache,    \* Redis keys url:<code>
    rateKeys,    \* Redis keys ratelimit:<ip>:<path>
    redisClient, \* is the module-level client set (createRedisClient succeeded)?
    now,         \* wall clock, seconds
    pc,          \* per handler: the await it is suspended at
    rq,          \* per handler: request parameters and locals
    last,        \* the latest answer: what was handed to res / next, and for
                 \* which request
    bgInc,       \* detached incrementClickCount tasks not yet run, per code
    nreq,        \* requests started so far
    returned,    \* history: per code, the URL a 201 answer returned it for
    served,      \* history: per code, the targets redirects have answered
    lastAlloc,   \* history: the code generateUniqueShortCode returned last,
                 \* and the number of rows urls held then
    admittedAt,  \* history: per rate key, the times at which the limiter let
                 \* a request through
    cacheFailed, \* history: has a cache call of the limiter thrown?
    resolved,    \* history: per code, the number of resolves answered with
                 \* the redirect
    updateFailed, \* history: per code, has an UPDATE of the click count
                 \* rejected?
    nextCalled,  \* per handler: has the limiter of its route called next(),
                 \* with the route's controller still to start?
    windowMs,    \* options.windowMs of the limiter, fixed when it is built
    dbNow,       \* the clock of the database server (CURRENT_TIMESTAMP, NOW())
    san,         \* the latest call of sanitizeCustomCode: its argument, what
                 \* validateCustomCode says of it, and the result
    gen          \* the call of shortCodeGenerator under way: its arguments,
                 \* the codes collected and the value returned

vars == <<urls, urlCache, rateKeys, redisClient, now, pc, rq, last, bgInc,
          nreq, returned, served, lastAlloc, admittedAt, cacheFailed,
          resolved, updateFailed, nextCalled, gen, windowMs,
          dbNow, san>>

-----------------------------------------------------------------------------
(* Bounds of the model *)

MaxRequests == 3
MaxAdmits == 4
MaxTicks == 3
TickStep == 43200
RateTickStep == 30

Procs == {1, 2}
Codes == {"c1", "c2"}
URLs == {"u1", "u2"}
RateKeys == {"ratelimit:ip1:/a", "ratelimit:ip1:/b", "ratelimit:ip2:/a"}
ClientKeys == {"ratelimit:ip1:/a", "ratelimit:ip2:/a"}

(* Program constants *)

CACHE_TTL == 86400
DaySeconds == 86400
MaxAttempts == 5
MaxExpirationDays == 3650
MinCodeLength == 4
MaxCodeLength == 10

Null == "null"
NoTime == -1

\* redisRateLimiter(options): the limiter under study
WindowMs == 60000
Max == 1

\* shortCodeGenerator.js 4 and 7
BASE62_ALPHABET ==
    <<"0", "1", "2", "3", "4", "5", "6", "7", "8", "9",
      "A", "B", "C", "D", "E", "F", "G", "H", "I", "J", "K", "L", "M",
      "N", "O", "P", "Q", "R", "S", "T", "U", "V", "W", "X", "Y", "Z",
      "a", "b", "c", "d", "e", "f", "g", "h", "i", "j", "k", "l", "m",
      "n", "o", "p", "q", "r", "s", "t", "u", "v", "w", "x", "y", "z">>
DefaultLength == 7
\* generate called without an argument
NoArg == -1

\* the places of the alphabet the random bytes fall on: "0", "A", "a", "z"
Draws == {1, 11, 37, 62}
MaxLen == 2
MaxBatch == 4
MaxInput == 11

(* Request inputs *)
BadUrl == "not-a-url"
BadCode == "a-b"
PaddedUrl == " u1 "
PaddedCode == " c1 "
UrlInputs == URLs \cup {PaddedUrl, BadUrl}
CustomInputs == {PaddedCode, BadCode, "c1", Null}

-----------------------------------------------------------------------------
(* Outcomes handed to res.status(...)/res.redirect(...) or to next(error) *)

Out(res, url, n) == [res |-> res, url |-> url, n |-> n]

\* locals of a handler; as bookkeeping, what held when the request came in:
\* seen, the URL a 201 answer had returned the code for, and rec0, what the store
\* held for the code ("absent", "live", "expired")
\* prev is what lastAlloc was when a create without a custom code came in;
\* dropped tells that the request's cacheDel removed an entry, dbFailed that
\* a store call of the request rejected
\* no call of the generator under way
NoGen == [op |-> "none", arg |-> NoArg, count |-> 0, size |-> 0,
          codes |-> <<>>, out |-> <<>>, done |-> FALSE]

\* no call of sanitizeCustomCode yet; a result is null (isNull) or the string
\* out, a sequence of characters
NoSan == [from |-> "none", input |-> <<>>, valid |-> FALSE, isNull |-> TRUE,
          out |-> <<>>]

NoAlloc == [code |-> Null, rows |-> 0]
NoRq == [kind |-> "none", code |-> Null, url |-> Null, days |-> 0,
         tenths |-> 0,
         expiresAt |-> NoTime, isCustom |-> FALSE, attempts |-> 0,
         cacheOk |-> FALSE, count |-> 0, age |-> 0,
         seen |-> Null, rec0 |-> "absent", prev |-> NoAlloc,
         dropped |-> FALSE, dbFailed |-> FALSE, stored |-> FALSE]

\* an answer: the outcome o, the request r it answers, whether any cache call
\* of the request succeeded, where the answer came from ("cache", "store",
\* "none") and what the store held for the code when the answer was given
Response(r, cacheOk, via, rec, o) ==
    [kind |-> r.kind, code |-> r.code, isCustom |-> r.isCustom,
     seen |-> r.seen, rec0 |-> r.rec0, dropped |-> r.dropped,
     dbFailed |-> r.dbFailed,
     cacheOk |-> cacheOk, via |-> via,
     rec |-> rec, res |-> o.res, url |-> o.url, n |-> o.n,
     count |-> 0, age |-> 0]
NoResponse == Response(NoRq, FALSE, "none", "absent", Out("none", Null, 0))

-----------------------------------------------------------------------------
(* Durable store: table urls *)

\* a row as the INSERT of UrlModel.create leaves it: created_at takes its
\* default, the database's time of the INSERT, and last_accessed is NULL
Row(code, url, exp, custom) ==
    [short_code |-> code, original_url |-> url, expires_at |-> exp,
     click_count |-> 0, is_custom |-> custom,
     created_at |-> dbNow, last_accessed |-> NoTime]

RowsOf(code) == {i \in 1..Len(urls) : urls[i].short_code = code}

\* variant: an existence check that looks at custom codes only
ExistsAmongCustom(code) == \E i \in RowsOf(code) : urls[i].is_custom

\* variant: an existence check that reports every code absent
ExistsNever(code) == FALSE

\* SELECT EXISTS(SELECT 1 FROM urls WHERE short_code = $1)
Exists(code) == RowsOf(code) # {}

Min(S) == CHOOSE x \in S : \A y \in S : x <= y

\* SELECT * FROM urls WHERE short_code = $1; result.rows[0] || null
HasRow(code) == RowsOf(code) # {}
FindByShortCode(code) == urls[Min(RowsOf(code))]

\* variant: the column short_code declared without UNIQUE
UniqueViolationUnenforced(code) == FALSE

\* short_code VARCHAR(10) UNIQUE NOT NULL
UniqueViolation(code) == \E i \in 1..Len(urls) : urls[i].short_code = code

\* variant: an INSERT that reports success and stores nothing
InsertRowDropped(row) == urls

\* INSERT INTO urls (...) VALUES (...) RETURNING *
InsertRow(row) == Append(urls, row)

\* variant: an UPDATE that writes 1 instead of adding 1
IncrementClickCountSetsOne(code) ==
    [i \in 1..Len(urls) |->
        IF urls[i].short_code = code
        THEN [urls[i] EXCEPT !.click_count = 1, !.last_accessed = dbNow]
        ELSE urls[i]]

\* variant: an UPDATE that takes one off the counter
IncrementClickCountDown(code) ==
    [i \in 1..Len(urls) |->
        IF urls[i].short_code = code
        THEN [urls[i] EXCEPT !.click_count = @ - 1,
                             !.last_accessed = dbNow]
        ELSE urls[i]]

\* variant: the UPDATE without its WHERE clause
IncrementClickCountEveryRow(code) ==
    [i \in 1..Len(urls) |->
        [urls[i] EXCEPT !.click_count = @ + 1, !.last_accessed = dbNow]]

\* UPDATE urls SET click_count = click_count + 1, last_accessed = NOW()
\* WHERE short_code = $1
IncrementClickCount(code) ==
    [i \in 1..Len(urls) |->
        IF urls[i].short_code = code
        THEN [urls[i] EXCEPT !.click_count = @ + 1,
                             !.last_accessed = dbNow]
        ELSE urls[i]]

-----------------------------------------------------------------------------
(* Fast cache: Redis *)

NoEntry == [val |-> Null, exp |-> NoTime]

\* a counter key: its value, its expiry time (NoTime: none armed) and, as
\* bookkeeping, the time at which the cacheIncrement call that created it
\* returned (NoTime: it has not yet) and the number of requests let through
\* while this key has existed
NoCounter == [count |-> 0, exp |-> NoTime, born |-> NoTime, admits |-> 0]

\* redisClient.get(key)
CacheGet(code) == urlCache[code].val

\* variant: set in place of setEx, the entry gets no expiry
CacheSetNoExpiry(code, ttl, val) ==
    [urlCache EXCEPT ![code] = [val |-> val, exp |-> NoTime]]

\* variant: setEx called with the key where the value belongs
CacheSetExKeyAsValue(code, ttl, val) ==
    [urlCache EXCEPT ![code] = [val |-> code, exp |-> now + ttl]]

\* redisClient.setEx(key, expirationInSeconds, value)
CacheSetEx(code, ttl, val) ==
    [urlCache EXCEPT ![code] = [val |-> val, exp |-> now + ttl]]

\* variant: a del that leaves the key in place
CacheDeleteNothing(code) == urlCache

\* redisClient.del(key)
CacheDelete(code) == [urlCache EXCEPT ![code] = NoEntry]

\* Redis drops a key once its expiry time is reached
PurgeUrl(t) ==
    [c \in Codes |->
        IF urlCache[c].val # Null /\ urlCache[c].exp # NoTime
              /\ urlCache[c].exp <= t
        THEN NoEntry ELSE urlCache[c]]

\* variant: the counter written as 1 whatever it held
CacheIncrSetsOne(key) ==
    [rateKeys EXCEPT ![key] =
        IF @.count = 0 THEN [NoCounter EXCEPT !.count = 1]
        ELSE [@ EXCEPT !.count = 1]]

\* redisClient.incr(key): a missing key counts from 0
CacheIncr(key) ==
    [rateKeys EXCEPT ![key] =
        IF @.count = 0 THEN [NoCounter EXCEPT !.count = 1]
        ELSE [@ EXCEPT !.count = @ + 1]]

\* variant: the expiry armed on every counter there is
CacheExpireEveryKey(key, seconds) ==
    [k \in RateKeys |->
        IF rateKeys[k].count = 0 THEN rateKeys[k]
        ELSE IF seconds <= 0 THEN NoCounter
        ELSE [rateKeys[k] EXCEPT !.exp = now + seconds]]

\* redisClient.expire(key, seconds): a timeout that is not positive deletes
\* the key
CacheExpire(key, seconds) ==
    [rateKeys EXCEPT ![key] =
        IF @.count = 0 THEN @
        ELSE IF seconds <= 0 THEN NoCounter
        ELSE [@ EXCEPT !.exp = now + seconds]]

PurgeRate(t) ==
    [k \in RateKeys |->
        IF rateKeys[k].exp # NoTime /\ rateKeys[k].exp <= t
        THEN NoCounter ELSE rateKeys[k]]

-----------------------------------------------------------------------------
(* Validators *)

\* String.prototype.trim on the inputs at hand
Trim(x) == IF x = PaddedUrl THEN "u1" ELSE IF x = PaddedCode THEN "c1" ELSE x

\* validateUrl(url).isValid: the trimmed URL is well formed and allowed
ValidUrl(u) == Trim(u) \in URLs

\* validateUrl(url).sanitizedUrl
SanitizedUrl(u) == Trim(u)

\* validateCustomCode(customCode).isValid: trimmed, 4 to 10 letters and digits
ValidCustomCode(c) == Trim(c) \in Codes

\* sanitizeCustomCode(customCode): trimmed and stripped of everything but
\* letters and digits; null unless 4 to 10 characters are left
SanitizeCustomCode(c) == IF Trim(c) \in Codes THEN Trim(c) ELSE Null

\* expirationDays as the JSON body gives it: a number, held as its whole days
\* (rounded down) and the tenths of a day beyond them
Truthy(days, tenths) == days # 0 \/ tenths # 0
Positive(days, tenths) == days > 0 \/ (days = 0 /\ tenths > 0)

\* parseInt(expirationDays) of a number that is not negative: the digits
\* before the decimal point
ParseInt(days, tenths) == days

\* variant: a validator that lets every number through
ValidExpirationDaysAny(d, tenths) == TRUE

\* validateExpirationDays(days).isValid
ValidExpirationDays(d, tenths) ==
    /\ d >= 0
    /\ d < MaxExpirationDays \/ (d = MaxExpirationDays /\ tenths = 0)

-----------------------------------------------------------------------------
(* Pieces of the handlers *)

\* urlController.js 74-85: expiresAt = null, or today + expirationDays
ExpiresAt(days, tenths) ==
    IF Positive(days, tenths) THEN now + ParseInt(days, tenths) * DaySeconds
    ELSE NoTime

\* variant: the comparison of line 156 the wrong way round
IsExpiredReversed(row) == row.expires_at # NoTime /\ row.expires_at > now

\* urlController.js 156: urlRecord.expires_at && new Date(expires_at) < new Date()
IsExpired(row) == row.expires_at # NoTime /\ row.expires_at < now

\* what cacheGet returns: the value, or null when the client is absent, the
\* key is missing or the call threw
Thrown == "thrown"
\* variant: cacheGet without its try/catch
CacheGetRethrows(ok, code) == IF ok THEN CacheGet(code) ELSE Thrown

\* variant: a cacheGet that reports every key missing
CacheGetAlwaysNull(ok, code) == Null

CacheGetResult(ok, code) == IF ok THEN CacheGet(code) ELSE Null

\* variant: a rejection caught and turned into "no rows"
QueryFailureSwallowed == Out("NotFound", Null, 404)

\* what a handler hands to next() when query() rethrows the error of a call
\* that could not be carried out
QueryFailure == Out("StoreError", Null, 500)

\* what shortenUrl hands to next() when the INSERT violates the UNIQUE
\* constraint: the error query() rethrew, not an AppError
InsertConflict == "ConflictError"

\* what redirectUrl answers when the awaited incrementClickCount of the miss
\* path rejects: the catch hands the store's error to next()
AwaitedIncrementFailure(url) == Out("IncrementError", Null, 500)

-----------------------------------------------------------------------------
\* the state once the modules are loaded; W holds the windows the limiter may
\* have been built with
InitWith(W) ==
    /\ windowMs \in W
    /\ dbNow = 0
    /\ san = NoSan
    /\ urls = <<>>
    /\ urlCache = [c \in Codes |-> NoEntry]
    /\ rateKeys = [k \in RateKeys |-> NoCounter]
    /\ redisClient \in BOOLEAN
    /\ now = 0
    /\ pc = [p \in Procs |-> "idle"]
    /\ rq = [p \in Procs |-> NoRq]
    /\ last = NoResponse
    /\ bgInc = [c \in Codes |-> 0]
    /\ nreq = 0
    /\ returned = [c \in Codes |-> Null]
    /\ served = [c \in Codes |-> {}]
    /\ lastAlloc = NoAlloc
    /\ admittedAt = [k \in RateKeys |-> <<>>]
    /\ cacheFailed = FALSE
    /\ resolved = [c \in Codes |-> 0]
    /\ updateFailed = [c \in Codes |-> FALSE]
    /\ nextCalled = [p \in Procs |-> FALSE]
    /\ gen = NoGen

\* the limiter built with its default window
Init == InitWith({WindowMs})

\* what the store holds for a code at this instant (kept with the answer)
RecState(code) ==
    IF code = Null \/ ~HasRow(code) THEN "absent"
    ELSE IF IsExpired(FindByShortCode(code)) THEN "expired"
    ELSE "live"

\* the handler of request r answers: res.status(..).json(..), res.redirect(..)
\* or next(error), and its slot is free again
Answer(p, r, cacheOk, via, o) ==
    /\ pc' = [pc EXCEPT ![p] = "idle"]
    /\ rq' = [rq EXCEPT ![p] = NoRq]
    /\ last' = Response(r, cacheOk, via, RecState(r.code), o)
    /\ returned' = IF o.res = "Created"
                   THEN [returned EXCEPT ![r.code] = o.url] ELSE returned
    /\ served' = IF o.res = "Redirect"
                 THEN [served EXCEPT ![r.code] = @ \cup {o.url}] ELSE served
    /\ resolved' = IF o.res = "Redirect"
                   THEN [resolved EXCEPT ![r.code] = @ + 1] ELSE resolved

\* next(error)
Fail(p, o) == Answer(p, rq[p], rq[p].cacheOk, "none", o)

\* an awaited store call rejects: the catch hands the error to next()
Rejected(p, o) ==
    Answer(p, [rq[p] EXCEPT !.dbFailed = TRUE], rq[p].cacheOk, "none", o)

\* the handler, its locals now r, suspends at the await named at
Suspend(p, r, at) ==
    /\ pc' = [pc EXCEPT ![p] = at]
    /\ rq' = [rq EXCEPT ![p] = r]
    /\ UNCHANGED <<last, returned, served, resolved>>

Free(p) == pc[p] = "idle"

-----------------------------------------------------------------------------
(* UrlController.shortenUrl *)

\* lines 18-71: validation, then the first store call is issued
\* variant: the lookup of lines 29-43 restored, a create answered with the
\* record the URL already has
AnsweredFromExistingByUrl(url) ==
    \E i \in 1..Len(urls) : urls[i].original_url = url

\* lines 28-43: the lookup of an existing record of the URL is commented out
AnsweredFromExisting(url) == FALSE

StartShortenDays(p, budget, UI, CI, DI) ==
    /\ Free(p)
    /\ nreq < budget
    /\ nreq' = nreq + 1
    /\ \E u \in UI, cc \in CI, d \in DI :
        IF ~ValidUrl(u) \/ (cc # Null /\ ~ValidCustomCode(cc))
              \/ (cc # Null /\ SanitizeCustomCode(cc) = Null)
        THEN Answer(p, [NoRq EXCEPT !.kind = "shorten"], FALSE, "none",
                    Out("ValidationError", Null, 400))
        ELSE IF AnsweredFromExisting(SanitizedUrl(u))
        THEN Answer(p, [NoRq EXCEPT !.kind = "shorten"], FALSE, "store",
                    Out("Existing", SanitizedUrl(u), 200))
        ELSE Suspend(p, [NoRq EXCEPT !.kind = "shorten",
                                     !.url = SanitizedUrl(u),
                                     !.code = SanitizeCustomCode(cc),
                                     !.isCustom = (cc # Null),
                                     !.days = d[1], !.tenths = d[2],
                                     !.rec0 = RecState(SanitizeCustomCode(cc)),
                                     !.prev = IF cc = Null THEN lastAlloc
                                              ELSE NoAlloc],
                     IF cc # Null THEN "s_exists" ELSE "s_gen")
    /\ nextCalled' = [nextCalled EXCEPT ![p] = FALSE]
    /\ UNCHANGED <<urls, urlCache, rateKeys, redisClient, san, dbNow, windowMs, gen, updateFailed,
                   admittedAt, cacheFailed, lastAlloc, now, bgInc>>

\* the same with expirationDays a whole number of days
StartShorten(p, budget, UI, CI, DI) ==
    StartShortenDays(p, budget, UI, CI, {<<d, 0>> : d \in DI})

\* lines 73-91: expiration date, then UrlModel.create is issued
AfterAllocation(p, code) ==
    IF Truthy(rq[p].days, rq[p].tenths)
          /\ ~ValidExpirationDays(rq[p].days, rq[p].tenths)
    THEN Answer(p, [rq[p] EXCEPT !.code = code], FALSE, "none",
                Out("ValidationError", Null, 400))
    ELSE Suspend(p, [rq[p] EXCEPT !.code = code, !.attempts = 0,
                                  !.expiresAt = ExpiresAt(rq[p].days,
                                                          rq[p].tenths)],
                 "s_insert")

\* lines 60-67: await UrlModel.exists(sanitized)
ShortenExists(p) ==
    /\ pc[p] = "s_exists"
    /\ \E dbOk \in BOOLEAN :
        IF ~dbOk
        THEN Rejected(p, QueryFailure)
        ELSE IF Exists(rq[p].code)
        THEN Fail(p, Out("AlreadyTaken", Null, 409))
        ELSE AfterAllocation(p, rq[p].code)
    /\ UNCHANGED <<urls, urlCache, rateKeys, redisClient, san, dbNow, windowMs, gen, nextCalled, updateFailed, admittedAt, cacheFailed, lastAlloc, now, bgInc, nreq>>

\* variant: the loop test written i <= maxAttempts
LoopContinuesOffByOne(i) == i <= MaxAttempts

\* generateUniqueShortCode 161: for (let i = 0; i < maxAttempts; i++)
LoopContinues(i) == i < MaxAttempts

\* UrlModel.generateUniqueShortCode: one turn of the loop
ShortenGenerate(p) ==
    /\ pc[p] = "s_gen"
    /\ \E c \in Codes, dbOk \in BOOLEAN :
        IF ~dbOk
        THEN /\ Rejected(p, QueryFailure)
             /\ lastAlloc' = lastAlloc
        ELSE IF ~Exists(c)
        THEN /\ AfterAllocation(p, c)
             /\ lastAlloc' = [code |-> c, rows |-> Len(urls)]
        ELSE IF ~LoopContinues(rq[p].attempts + 1)
        THEN /\ Fail(p, Out("AllocationError", Null, 500))
             /\ lastAlloc' = lastAlloc
        ELSE /\ Suspend(p, [rq[p] EXCEPT !.attempts = @ + 1], "s_gen")
             /\ lastAlloc' = lastAlloc
    /\ UNCHANGED <<urls, urlCache, rateKeys, redisClient, san, dbNow, windowMs, gen, nextCalled, updateFailed, admittedAt, cacheFailed, now, bgInc, nreq>>

\* variant: a rejected INSERT of a generated code sends the request back to
\* the allocator
InsertRejectedRetries(p) ==
    IF rq[p].isCustom THEN Fail(p, Out(InsertConflict, Null, 500))
    ELSE Suspend(p, [rq[p] EXCEPT !.attempts = 0], "s_gen")

\* lines 90-96 and 115-117: UrlModel.create rejects on the UNIQUE constraint;
\* the catch of shortenUrl hands the error to next()
InsertRejected(p) == Fail(p, Out(InsertConflict, Null, 500))

\* lines 90-100: await UrlModel.create(...), then cacheSet is issued
ShortenInsert(p) ==
    /\ pc[p] = "s_insert"
    /\ \E dbOk \in BOOLEAN :
        IF ~dbOk
        THEN /\ Rejected(p, QueryFailure)
             /\ urls' = urls
        ELSE IF UniqueViolation(rq[p].code)
        THEN /\ InsertRejected(p)
             /\ urls' = urls
        ELSE /\ urls' = InsertRow(Row(rq[p].code, rq[p].url, rq[p].expiresAt,
                                      rq[p].isCustom))
             /\ Suspend(p, rq[p], "s_cache")
    /\ UNCHANGED <<urlCache, rateKeys, redisClient, san, dbNow, windowMs, gen, nextCalled, updateFailed, admittedAt, cacheFailed, lastAlloc, now, bgInc, nreq>>

\* variant: a cacheSet whose catch rethrows, so that the create fails with it
CreatedAfterCacheSetRethrows(ok, url) ==
    IF ok THEN Out("Created", url, 201) ELSE Out("CacheError", Null, 500)

\* part_000 62-71 and urlController.js 100-114: cacheSet returns false without
\* a client and from its catch; the result is not looked at and 201 follows
CreatedAfterCacheSet(ok, url) == Out("Created", url, 201)

\* lines 100-114: await cacheSet(url:<code>, originalUrl, 86400), then 201
ShortenCacheSet(p) ==
    /\ pc[p] = "s_cache"
    /\ \E redisOk \in BOOLEAN :
        LET ok == redisClient /\ redisOk IN
        /\ urlCache' = IF ok THEN CacheSetEx(rq[p].code, CACHE_TTL, rq[p].url)
                       ELSE urlCache
        /\ Answer(p, rq[p], ok, "store", CreatedAfterCacheSet(ok, rq[p].url))
    /\ UNCHANGED <<urls, rateKeys, redisClient, san, dbNow, windowMs, gen, nextCalled, updateFailed, admittedAt, cacheFailed, lastAlloc, now, bgInc, nreq>>

-----------------------------------------------------------------------------
(* UrlController.redirectUrl *)

\* lines 124-133: cacheGet is issued
StartRedirect(p, budget, RI) ==
    /\ Free(p)
    /\ nreq < budget
    /\ nreq' = nreq + 1
    /\ \E c \in RI :
        Suspend(p, [NoRq EXCEPT !.kind = "redirect", !.code = c,
                                !.seen = returned[c], !.rec0 = RecState(c)],
                "r_get")
    /\ nextCalled' = [nextCalled EXCEPT ![p] = FALSE]
    /\ UNCHANGED <<urls, urlCache, rateKeys, redisClient, san, dbNow, windowMs, gen, updateFailed,
                   admittedAt, cacheFailed, lastAlloc, now, bgInc>>

\* lines 133-149: await cacheGet; a hit answers at once and detaches the
\* click increment, a miss issues findByShortCode
RedirectCacheGet(p) ==
    /\ pc[p] = "r_get"
    /\ \E redisOk \in BOOLEAN :
        LET ok == redisClient /\ redisOk
            got == CacheGetResult(ok, rq[p].code)
        IN  IF got = Thrown
            THEN /\ Fail(p, Out("CacheError", Null, 500))
                 /\ bgInc' = bgInc
            ELSE IF got # Null
            THEN /\ Answer(p, rq[p], ok, "cache", Out("Redirect", got, 301))
                 /\ bgInc' = [bgInc EXCEPT ![rq[p].code] = @ + 1]
            ELSE /\ Suspend(p, [rq[p] EXCEPT !.cacheOk = ok], "r_find")
                 /\ bgInc' = bgInc
    /\ UNCHANGED <<urls, urlCache, rateKeys, redisClient, san, dbNow, windowMs, gen, nextCalled, updateFailed, admittedAt, cacheFailed, lastAlloc, now, nreq>>

\* lines 149-163: await findByShortCode; 404, or cacheDel / cacheSet is issued
RedirectFind(p) ==
    /\ pc[p] = "r_find"
    /\ \E dbOk \in BOOLEAN :
        IF ~dbOk
        THEN Rejected(p, QueryFailure)
        ELSE IF ~HasRow(rq[p].code)
        THEN Fail(p, Out("NotFound", Null, 404))
        ELSE LET urlRecord == FindByShortCode(rq[p].code) IN
             Suspend(p, [rq[p] EXCEPT !.url = urlRecord.original_url],
                     IF IsExpired(urlRecord) THEN "r_del" ELSE "r_set")
    /\ UNCHANGED <<urls, urlCache, rateKeys, redisClient, san, dbNow, windowMs, gen, nextCalled, updateFailed, admittedAt, cacheFailed, lastAlloc, now, bgInc, nreq>>

\* lines 158-159: await cacheDel, then 410
RedirectCacheDel(p) ==
    /\ pc[p] = "r_del"
    /\ \E redisOk \in BOOLEAN :
        LET ok == redisClient /\ redisOk IN
        /\ urlCache' = IF ok THEN CacheDelete(rq[p].code) ELSE urlCache
        /\ Answer(p, [rq[p] EXCEPT !.dropped =
                                  ok /\ urlCache[rq[p].code] # NoEntry],
                  rq[p].cacheOk \/ ok, "store", Out("Expired", Null, 410))
    /\ UNCHANGED <<urls, rateKeys, redisClient, san, dbNow, windowMs, gen, nextCalled, updateFailed, admittedAt, cacheFailed, lastAlloc, now, bgInc, nreq>>

\* lines 163-166: await cacheSet, then incrementClickCount is issued
RedirectCacheSet(p) ==
    /\ pc[p] = "r_set"
    /\ \E redisOk \in BOOLEAN :
        LET ok == redisClient /\ redisOk IN
        /\ urlCache' = IF ok THEN CacheSetEx(rq[p].code, CACHE_TTL, rq[p].url)
                       ELSE urlCache
        /\ Suspend(p, [rq[p] EXCEPT !.cacheOk = @ \/ ok, !.stored = ok],
                   "r_inc")
    /\ UNCHANGED <<urls, rateKeys, redisClient, san, dbNow, windowMs, gen, nextCalled, updateFailed, admittedAt, cacheFailed, lastAlloc, now, bgInc, nreq>>

\* lines 166-181: await incrementClickCount, then the redirect
RedirectIncrement(p) ==
    /\ pc[p] = "r_inc"
    /\ \E dbOk \in BOOLEAN :
        IF ~dbOk
        THEN /\ Rejected(p, AwaitedIncrementFailure(rq[p].url))
             /\ urls' = urls
             /\ updateFailed' = [updateFailed EXCEPT ![rq[p].code] = TRUE]
        ELSE /\ urls' = IncrementClickCount(rq[p].code)
             /\ Answer(p, rq[p], rq[p].cacheOk, "store",
                       Out("Redirect", rq[p].url, 301))
             /\ updateFailed' = updateFailed
    /\ UNCHANGED <<urlCache, rateKeys, redisClient, san, dbNow, windowMs, gen, nextCalled, admittedAt, cacheFailed, lastAlloc, now, bgInc, nreq>>

\* lines 139-141: the detached incrementClickCount of a cache hit runs; its
\* rejection is logged by the .catch
BackgroundIncrement ==
    /\ \E c \in Codes, dbOk \in BOOLEAN :
        /\ bgInc[c] > 0
        /\ bgInc' = [bgInc EXCEPT ![c] = @ - 1]
        /\ urls' = IF dbOk THEN IncrementClickCount(c) ELSE urls
        /\ updateFailed' = [updateFailed EXCEPT ![c] = @ \/ ~dbOk]
    /\ UNCHANGED <<urlCache, rateKeys, redisClient, san, dbNow, windowMs, gen, nextCalled, admittedAt, cacheFailed, lastAlloc, now, pc, rq, last, nreq,
                   returned, served, resolved>>

-----------------------------------------------------------------------------
(* redisRateLimiter and cacheIncrement *)

\* variant: the window divided as if windowMs counted half-milliseconds
WindowInSecondsHalved == windowMs \div 2000

\* rateLimiter.js 57: the expiry handed to cacheIncrement
WindowInSeconds == windowMs \div 1000

\* rateLimiter.js 71: retryAfter = Math.ceil(windowMs / 1000)
RetryAfter == (windowMs + 999) \div 1000

\* variant: a limiter that also refuses when cacheIncrement reports 0
AdmissionFailClosed(count) ==
    IF count > Max \/ count < 1 THEN Out("Denied", Null, RetryAfter)
    ELSE Out("Allowed", Null, 0)

\* rateLimiter.js 65-76: 429 when count > max, else next()
Admission(count) ==
    IF count > Max THEN Out("Denied", Null, RetryAfter)
    ELSE Out("Allowed", Null, 0)

\* bookkeeping: the seconds since the call that created the counter returned
Age(counter) == IF counter.born = NoTime THEN 0 ELSE now - counter.born

\* bookkeeping: the cacheIncrement call that created the counter returns
Born(keys, key) == [keys EXCEPT ![key].born = IF @ = NoTime THEN now ELSE @]

\* variant: the 429 branch without its return, so that next() follows it
CallsNextAlways(o) == TRUE

\* rateLimiter.js 65-76: the 429 branch returns; next() is reached otherwise
CallsNext(o) == o.res = "Allowed"

\* bookkeeping: next() is called for a request of the key
Through(key, o) ==
    IF CallsNext(o) THEN [admittedAt EXCEPT ![key] = Append(@, now)]
    ELSE admittedAt

\* bookkeeping: next() is called while the counter of the key exists
Counted(keys, key, o) ==
    IF CallsNext(o) /\ keys[key].count > 0
    THEN [keys EXCEPT ![key].admits = @ + 1] ELSE keys

\* the limiter answers (429) or calls next(); count is what cacheIncrement
\* returned and age the age of the counter
Admit(p, cacheOk, count, age) ==
    /\ pc' = [pc EXCEPT ![p] = "idle"]
    /\ rq' = [rq EXCEPT ![p] = NoRq]
    /\ last' = [Response(rq[p], cacheOk, "none", "absent", Admission(count))
                  EXCEPT !.count = count, !.age = age]
    /\ admittedAt' = Through(rq[p].code, Admission(count))
    /\ nextCalled' = [nextCalled EXCEPT ![p] = CallsNext(Admission(count))]
    /\ UNCHANGED <<returned, served, resolved>>

\* rateLimiter.js 54-59 and cacheIncrement 86: the key is built; without a
\* client cacheIncrement returns 0 at once, else INCR is issued
StartAdmit(p, budget, KI) ==
    /\ Free(p)
    /\ nreq < budget
    /\ nreq' = nreq + 1
    /\ \E k \in KI :
        IF ~redisClient
        THEN /\ pc' = [pc EXCEPT ![p] = "idle"]
             /\ rq' = [rq EXCEPT ![p] = NoRq]
             /\ last' = Response([NoRq EXCEPT !.kind = "admit", !.code = k],
                                 FALSE, "none", "absent", Admission(0))
             /\ admittedAt' = Through(k, Admission(0))
             /\ nextCalled' = [nextCalled EXCEPT ![p] = CallsNext(Admission(0))]
             /\ UNCHANGED <<returned, served, resolved>>
        ELSE /\ Suspend(p, [NoRq EXCEPT !.kind = "admit", !.code = k], "a_incr")
             /\ admittedAt' = admittedAt
             /\ nextCalled' = [nextCalled EXCEPT ![p] = FALSE]
    /\ UNCHANGED <<urls, urlCache, rateKeys, redisClient, san, dbNow, windowMs, gen, updateFailed, cacheFailed,
                   lastAlloc, now, bgInc>>

\* cacheIncrement 87-96: await redisClient.incr(key); on 1 EXPIRE is issued,
\* else the count is returned; a throw is caught and 0 returned
AdmitIncr(p) ==
    /\ pc[p] = "a_incr"
    /\ \E redisOk \in BOOLEAN :
        IF ~redisOk
        THEN /\ Admit(p, FALSE, 0, 0)
             /\ rateKeys' = Counted(rateKeys, rq[p].code, Admission(0))
             /\ cacheFailed' = TRUE
        ELSE LET after == CacheIncr(rq[p].code)
                 count == after[rq[p].code].count
                 age == Age(after[rq[p].code])
             IN  /\ rateKeys' = IF count = 1 THEN after
                                ELSE Counted(after, rq[p].code,
                                             Admission(count))
                 /\ cacheFailed' = cacheFailed
                 /\ IF count = 1
                    THEN /\ Suspend(p, [rq[p] EXCEPT !.cacheOk = TRUE,
                                                     !.count = count,
                                                     !.age = age],
                                    "a_expire")
                         /\ admittedAt' = admittedAt
                         /\ nextCalled' = nextCalled
                    ELSE Admit(p, TRUE, count, age)
    /\ UNCHANGED <<urls, urlCache, redisClient, san, dbNow, windowMs, gen, updateFailed, lastAlloc, now, bgInc, nreq>>

\* cacheIncrement 88-96: await redisClient.expire(key, seconds), then the
\* count is returned; a throw is caught and 0 returned
AdmitExpire(p) ==
    /\ pc[p] = "a_expire"
    /\ \E redisOk \in BOOLEAN :
        IF ~redisOk
        THEN /\ Admit(p, TRUE, 0, rq[p].age)
             /\ rateKeys' = Counted(Born(rateKeys, rq[p].code), rq[p].code,
                                    Admission(0))
             /\ cacheFailed' = TRUE
        ELSE /\ rateKeys' = Counted(Born(CacheExpire(rq[p].code,
                                                     WindowInSeconds),
                                         rq[p].code),
                                    rq[p].code, Admission(rq[p].count))
             /\ Admit(p, TRUE, rq[p].count, rq[p].age)
             /\ cacheFailed' = cacheFailed
    /\ UNCHANGED <<urls, urlCache, redisClient, san, dbNow, windowMs, gen, updateFailed, lastAlloc, now, bgInc, nreq>>

-----------------------------------------------------------------------------
(* Environment *)

\* time passes; Redis drops the keys whose expiry is reached
Tick(step) ==
    /\ now + step <= MaxTicks * step
    /\ now' = now + step
    /\ urlCache' = PurgeUrl(now + step)
    /\ rateKeys' = PurgeRate(now + step)
    /\ UNCHANGED <<urls, redisClient, san, dbNow, windowMs, gen, nextCalled, updateFailed, admittedAt, cacheFailed, lastAlloc, pc, rq, last, bgInc, nreq, returned,
                   served, resolved>>

\* the database server's clock advances
DbTick(step) ==
    /\ dbNow + step <= MaxTicks * step
    /\ dbNow' = dbNow + step
    /\ UNCHANGED <<urls, urlCache, rateKeys, redisClient, san, windowMs, gen,
                   nextCalled, updateFailed, admittedAt, cacheFailed,
                   lastAlloc, now, pc, rq, last, bgInc, nreq, returned,
                   served, resolved>>

\* the steps of shortenUrl after the request has started
ContinueShorten(p) ==
    \/ ShortenExists(p)
    \/ ShortenGenerate(p)
    \/ ShortenInsert(p)
    \/ ShortenCacheSet(p)

\* the steps of redirectUrl after the request has started
ContinueRedirect(p) ==
    \/ RedirectCacheGet(p)
    \/ RedirectFind(p)
    \/ RedirectCacheDel(p)
    \/ RedirectCacheSet(p)
    \/ RedirectIncrement(p)

-----------------------------------------------------------------------------
(* shortCodeGenerator *)

\* the symbols the generator can append under Draws
Symbols == {BASE62_ALPHABET[i] : i \in Draws}

\* lines 7, 21-22, 76: what a generator made by customAlphabet(BASE62_ALPHABET,
\* size) can return, a string of size symbols of the alphabet
CustomAlphabet(size) == [1..size -> Symbols]

\* variant: a generate that leaves its argument aside
GenerateSizeFixed(arg) == DefaultLength

\* lines 19-25: length defaults to 7; a truthy length makes its own
\* generator, else the module's 7-symbol generator is used
GenerateSize(arg) ==
    LET length == IF arg = NoArg THEN DefaultLength ELSE arg IN
    IF length # 0 THEN length ELSE DefaultLength

\* lines 19-25: generate(length)
Generate(L) ==
    /\ gen.op = "none"
    /\ \E arg \in L : \E id \in CustomAlphabet(GenerateSize(arg)) :
        gen' = [NoGen EXCEPT !.op = "generate", !.arg = arg,
                             !.size = GenerateSize(arg), !.out = id,
                             !.done = TRUE]
    /\ UNCHANGED <<urls, urlCache, rateKeys, redisClient, san, dbNow, windowMs, nextCalled,
                   updateFailed, admittedAt, cacheFailed, lastAlloc, now, pc,
                   rq, last, bgInc, nreq, returned, served, resolved>>

\* lines 74-76: generateBatch(count, length) starts with an empty Set
GenerateBatch(I) ==
    /\ gen.op = "none"
    /\ \E in \in I :
        gen' = [NoGen EXCEPT !.op = "batch", !.count = in[1], !.arg = in[2],
                             !.size = in[2]]
    /\ UNCHANGED <<urls, urlCache, rateKeys, redisClient, san, dbNow, windowMs, nextCalled,
                   updateFailed, admittedAt, cacheFailed, lastAlloc, now, pc,
                   rq, last, bgInc, nreq, returned, served, resolved>>

\* variant: codes kept in an array, push instead of Set.add
SetAddAsPush(codes, id) == Append(codes, id)

\* lines 75, 79: codes is a Set, kept here in insertion order; add leaves it
\* as it is when it holds the value already
SetAdd(codes, id) ==
    IF \E i \in 1..Len(codes) : codes[i] = id THEN codes
    ELSE Append(codes, id)

\* line 78: while (codes.size < count)
BatchLoopContinues(g) == Len(g.codes) < g.count

\* lines 78-80: one turn of the loop, codes.add(generator()); adding a code
\* the Set holds already leaves it as it is
BatchAdd ==
    /\ gen.op = "batch" /\ ~gen.done
    /\ BatchLoopContinues(gen)
    /\ \E id \in CustomAlphabet(gen.size) :
        gen' = [gen EXCEPT !.codes = SetAdd(@, id)]
    /\ UNCHANGED <<urls, urlCache, rateKeys, redisClient, san, dbNow, windowMs, nextCalled,
                   updateFailed, admittedAt, cacheFailed, lastAlloc, now, pc,
                   rq, last, bgInc, nreq, returned, served, resolved>>

\* line 82: return Array.from(codes)
BatchReturn ==
    /\ gen.op = "batch" /\ ~gen.done
    /\ ~BatchLoopContinues(gen)
    /\ gen' = [gen EXCEPT !.done = TRUE]
    /\ UNCHANGED <<urls, urlCache, rateKeys, redisClient, san, dbNow, windowMs, nextCalled,
                   updateFailed, admittedAt, cacheFailed, lastAlloc, now, pc,
                   rq, last, bgInc, nreq, returned, served, resolved>>

\* the arguments tried: any count with length 1, small counts with length 2
BatchInputs ==
    {<<n, 1>> : n \in 0..MaxBatch} \cup {<<n, MaxLen>> : n \in 0..2}

\* Resolution of one short link: it is created under a custom code and
\* resolved, by two handler slots, MaxRequests requests in all
Next ==
    \/ \E p \in Procs : StartShorten(p, MaxRequests, URLs, {"c1"}, {0, 1})
    \/ \E p \in Procs : ShortenExists(p)
    \/ \E p \in Procs : ShortenInsert(p)
    \/ \E p \in Procs : ShortenCacheSet(p)
    \/ \E p \in Procs : StartRedirect(p, MaxRequests, {"c1"})
    \/ \E p \in Procs : ContinueRedirect(p)
    \/ BackgroundIncrement
    \/ Tick(TickStep)

Spec == Init /\ [][Next]_vars

\* Creation: any body of POST /api/shorten, two handler slots (of one or of two
\* process instances)
NextCreate ==
    \/ \E p \in Procs : StartShorten(p, MaxRequests, UrlInputs, CustomInputs, {-1, 0})
    \/ \E p \in Procs : ContinueShorten(p)

SpecCreate == Init /\ [][NextCreate]_vars

\* Admission: requests of two clients pass the limiter, on two handler slots
NextRate ==
    \/ \E p \in Procs : StartAdmit(p, MaxAdmits, ClientKeys)
    \/ \E p \in Procs : AdmitIncr(p)
    \/ \E p \in Procs : AdmitExpire(p)
    \/ Tick(RateTickStep)

SpecRate == Init /\ [][NextRate]_vars

\* the awaited calls that go to the cache and to the store
CacheCalls == {"a_expire", "a_incr", "r_del", "r_get", "r_set", "s_cache"}
StoreCalls == {"r_find", "r_inc", "s_exists", "s_gen", "s_insert"}

\* database.js 30, part_000 56/66/77/87/90: the promise of the awaited call
\* never settles. query() passes pool.query's promise on and the cache
\* helpers pass the client's; neither sets a deadline, so nothing resumes
\* the handler
NeverAnswers(p) ==
    /\ \/ pc[p] \in StoreCalls
       \/ pc[p] \in CacheCalls /\ redisClient
    /\ pc' = [pc EXCEPT ![p] = "hung"]
    /\ UNCHANGED <<urls, urlCache, rateKeys, redisClient, san, dbNow, windowMs, gen, nextCalled, updateFailed, admittedAt,
                   cacheFailed, lastAlloc, now, rq, last, bgInc, nreq,
                   returned, served, resolved>>

\* Completion: one link without expiry is created, resolved and admitted; a
\* call that answers resumes its handler, a call may also never answer
NextLive ==
    \/ \E p \in Procs : StartShorten(p, MaxRequests, {"u1"}, {"c1"}, {0})
    \/ \E p \in Procs : ShortenExists(p)
    \/ \E p \in Procs : ShortenInsert(p)
    \/ \E p \in Procs : ShortenCacheSet(p)
    \/ \E p \in Procs : StartRedirect(p, MaxRequests, {"c1"})
    \/ \E p \in Procs : RedirectCacheGet(p)
    \/ \E p \in Procs : RedirectFind(p)
    \/ \E p \in Procs : RedirectCacheSet(p)
    \/ \E p \in Procs : RedirectIncrement(p)
    \/ \E p \in Procs : StartAdmit(p, MaxRequests, {"ratelimit:ip1:/a"})
    \/ \E p \in Procs : AdmitIncr(p)
    \/ \E p \in Procs : AdmitExpire(p)
    \/ \E p \in Procs : NeverAnswers(p)

SpecLive ==
    /\ Init /\ [][NextLive]_vars
    /\ \A p \in Procs :
          /\ WF_vars(ShortenExists(p) \/ ShortenInsert(p) \/ ShortenCacheSet(p))
          /\ WF_vars(RedirectCacheGet(p) \/ RedirectFind(p)
                         \/ RedirectCacheSet(p) \/ RedirectIncrement(p))
          /\ WF_vars(AdmitIncr(p) \/ AdmitExpire(p))

\* server.js 114: router.post('/shorten', limiter, shortenUrl); the controller
\* runs when the limiter before it has called next()
RouteShorten(p) ==
    /\ nextCalled[p]
    /\ StartShorten(p, MaxAdmits, {"u1"}, {"c1"}, {0})

\* validator.js 242: app.get('/:shortCode', limiter, redirectUrl)
RouteRedirect(p) ==
    /\ nextCalled[p]
    /\ StartRedirect(p, MaxAdmits, {"c1"})

\* Routes: every request of one client passes the limiter first, and the
\* controller of its route follows a call of next()
NextGate ==
    \/ \E p \in Procs : StartAdmit(p, MaxAdmits, {"ratelimit:ip1:/a"})
    \/ \E p \in Procs : AdmitIncr(p)
    \/ \E p \in Procs : AdmitExpire(p)
    \/ \E p \in Procs : RouteShorten(p)
    \/ \E p \in Procs : ShortenExists(p)
    \/ \E p \in Procs : ShortenInsert(p)
    \/ \E p \in Procs : ShortenCacheSet(p)
    \/ \E p \in Procs : RouteRedirect(p)
    \/ \E p \in Procs : RedirectCacheGet(p)
    \/ \E p \in Procs : RedirectFind(p)
    \/ \E p \in Procs : RedirectCacheSet(p)
    \/ \E p \in Procs : RedirectIncrement(p)
    \/ BackgroundIncrement

SpecGate == Init /\ [][NextGate]_vars

\* the first request creates a link
FirstShorten(p) == nreq = 0 /\ StartShorten(p, MaxRequests, {"u1"}, {"c1"}, {0})

\* Limiter and controller side by side: the first request creates a link,
\* and requests of two clients and two paths go through the limiter while it
\* is being created and once it is cached; the clock moves once
NextKeys ==
    \/ \E p \in Procs : StartAdmit(p, MaxRequests + 1, RateKeys)
    \/ \E p \in Procs : AdmitIncr(p)
    \/ \E p \in Procs : AdmitExpire(p)
    \/ \E p \in Procs : FirstShorten(p)
    \/ \E p \in Procs : ShortenExists(p)
    \/ \E p \in Procs : ShortenInsert(p)
    \/ \E p \in Procs : ShortenCacheSet(p)
    \/ now = 0 /\ Tick(RateTickStep)

SpecKeys == Init /\ [][NextKeys]_vars

\* windows a limiter may be built with: half a second, whole seconds, a
\* second and a half
Windows == {500, 1000, 1500, 60000}

\* The limiter built with any of these windows, on one key
NextWindow ==
    \/ \E p \in Procs : StartAdmit(p, MaxAdmits, {"ratelimit:ip1:/a"})
    \/ \E p \in Procs : AdmitIncr(p)
    \/ \E p \in Procs : AdmitExpire(p)
    \/ Tick(RateTickStep)

SpecWindow == InitWith(Windows) /\ [][NextWindow]_vars

\* Records over time: links created under two custom codes and one of them
\* resolved, while the database's clock advances once
NextRecord ==
    \/ \E p \in Procs : StartShorten(p, MaxRequests, {"u1"}, {"c1", "c2"}, {0})
    \/ \E p \in Procs : ShortenExists(p)
    \/ \E p \in Procs : ShortenInsert(p)
    \/ \E p \in Procs : ShortenCacheSet(p)
    \/ \E p \in Procs : StartRedirect(p, MaxRequests, {"c1"})
    \/ \E p \in Procs : RedirectCacheGet(p)
    \/ \E p \in Procs : RedirectFind(p)
    \/ \E p \in Procs : RedirectCacheSet(p)
    \/ \E p \in Procs : RedirectIncrement(p)
    \/ BackgroundIncrement
    \/ dbNow = 0 /\ DbTick(TickStep)

SpecRecord == Init /\ [][NextRecord]_vars

\* expirationDays of a request: absent or 0, half a day, a day, a day and a
\* half
TtlInputs == {<<0, 0>>, <<0, 5>>, <<1, 0>>, <<1, 5>>}

\* Links created with these lifetimes and resolved as time passes
NextTtl ==
    \/ \E p \in Procs : StartShortenDays(p, MaxRequests, {"u1"}, {"c1"}, TtlInputs)
    \/ \E p \in Procs : ShortenExists(p)
    \/ \E p \in Procs : ShortenInsert(p)
    \/ \E p \in Procs : ShortenCacheSet(p)
    \/ \E p \in Procs : StartRedirect(p, MaxRequests, {"c1"})
    \/ \E p \in Procs : ContinueRedirect(p)
    \/ BackgroundIncrement
    \/ Tick(TickStep)

SpecTtl == Init /\ [][NextTtl]_vars

\* One target under several codes: the first requests create the same URL
\* under custom and generated codes, and the codes are resolved
NextSame ==
    \/ \E p \in Procs : StartShorten(p, MaxRequests - 1, {"u1"}, {"c1", Null}, {0})
    \/ \E p \in Procs : ShortenExists(p)
    \/ \E p \in Procs : ShortenGenerate(p)
    \/ \E p \in Procs : ShortenInsert(p)
    \/ \E p \in Procs : ShortenCacheSet(p)
    \/ \E p \in Procs : StartRedirect(p, MaxAdmits, Codes)
    \/ \E p \in Procs : RedirectCacheGet(p)
    \/ \E p \in Procs : RedirectFind(p)
    \/ \E p \in Procs : RedirectCacheSet(p)
    \/ \E p \in Procs : RedirectIncrement(p)
    \/ BackgroundIncrement

SpecSame == Init /\ [][NextSame]_vars

\* the characters of the inputs: a blank, a character that is neither letter
\* nor digit, a letter
InputChars == {" ", "-", "a"}
WhiteSpace == {" "}

\* the class [0-9A-Za-z] of the two patterns
Base62Chars == {BASE62_ALPHABET[i] : i \in 1..Len(BASE62_ALPHABET)}

\* String.prototype.trim
RECURSIVE trimStart(_)
trimStart(s) ==
    IF s # <<>> /\ Head(s) \in WhiteSpace THEN trimStart(Tail(s)) ELSE s

RECURSIVE trimEnd(_)
trimEnd(s) ==
    IF s # <<>> /\ s[Len(s)] \in WhiteSpace
    THEN trimEnd(SubSeq(s, 1, Len(s) - 1)) ELSE s

trim(s) == trimEnd(trimStart(s))

\* /^[0-9A-Za-z]+$/.test(s)
validPattern(s) == s # <<>> /\ \A i \in 1..Len(s) : s[i] \in Base62Chars

\* .replace(/[^0-9A-Za-z]/g, '')
stripped(s) == SelectSeq(s, LAMBDA ch : ch \in Base62Chars)

\* variant: the upper limit of the length left out
isValidShortCodeAnyLength(shortCode) ==
    /\ shortCode # <<>>
    /\ ~(Len(shortCode) < MinCodeLength)
    /\ validPattern(shortCode)

\* shortCodeGenerator.js 32-45
isValidShortCode(shortCode) ==
    /\ shortCode # <<>>
    /\ ~(Len(shortCode) < MinCodeLength \/ Len(shortCode) > MaxCodeLength)
    /\ validPattern(shortCode)

\* shortCodeGenerator.js 52-66: the result, null or a string
sanitizeCustomCode(customCode) ==
    IF customCode = <<>> THEN [isNull |-> TRUE, out |-> <<>>]
    ELSE LET sanitized == stripped(trim(customCode))
         IN  IF isValidShortCode(sanitized)
             THEN [isNull |-> FALSE, out |-> sanitized]
             ELSE [isNull |-> TRUE, out |-> <<>>]

\* validator.js 90-128: validateCustomCode(customCode).isValid
validateCustomCode(customCode) ==
    /\ customCode # <<>>
    /\ LET trimmed == trim(customCode)
       IN  /\ ~(Len(trimmed) < MinCodeLength)
           /\ ~(Len(trimmed) > MaxCodeLength)
           /\ validPattern(trimmed)

\* the strings of at most MaxInput characters
Inputs == UNION {[1..n -> InputChars] : n \in 0..MaxInput}

SanCall(from, input) ==
    LET r == sanitizeCustomCode(input)
    IN  san' = [from |-> from, input |-> input,
                valid |-> validateCustomCode(input),
                isNull |-> r.isNull, out |-> r.out]

\* sanitizeCustomCode called on a string
Sanitize ==
    /\ san.from = "none"
    /\ \E input \in Inputs : SanCall("input", input)
    /\ UNCHANGED <<urls, urlCache, rateKeys, redisClient, dbNow, windowMs,
                   gen, nextCalled, updateFailed, admittedAt, cacheFailed,
                   lastAlloc, now, pc, rq, last, bgInc, nreq, returned,
                   served, resolved>>

\* sanitizeCustomCode called on a string it returned
SanitizeResult ==
    /\ san.from = "input" /\ ~san.isNull
    /\ SanCall("result", san.out)
    /\ UNCHANGED <<urls, urlCache, rateKeys, redisClient, dbNow, windowMs,
                   gen, nextCalled, updateFailed, admittedAt, cacheFailed,
                   lastAlloc, now, pc, rq, last, bgInc, nreq, returned,
                   served, resolved>>

NextSan == Sanitize \/ SanitizeResult

SpecSan == Init /\ [][NextSan]_vars

\* Code generation: one call of generate or of generateBatch; a turn of the
\* loop of generateBatch that can bring a new code eventually brings one
NextGen ==
    \/ Generate({NoArg} \cup 0..MaxLen)
    \/ GenerateBatch(BatchInputs)
    \/ BatchAdd
    \/ BatchReturn

SpecGen ==
    /\ Init /\ [][NextGen]_vars
    /\ WF_vars(BatchAdd) /\ WF_vars(BatchReturn)

\* Expiry: a link with a one-day expiration is created and resolved while
\* time passes; whatever can run does run. UrlModel.deleteExpired
\* (part_002 120-129) has no caller in the program, no timer and no route,
\* so no step issues its DELETE
NextExpiry ==
    \/ \E p \in Procs : StartShorten(p, MaxRequests, {"u1"}, {"c1"}, {1})
    \/ \E p \in Procs : ShortenExists(p)
    \/ \E p \in Procs : ShortenInsert(p)
    \/ \E p \in Procs : ShortenCacheSet(p)
    \/ \E p \in Procs : StartRedirect(p, MaxRequests, {"c1"})
    \/ \E p \in Procs : ContinueRedirect(p)
    \/ BackgroundIncrement
    \/ Tick(TickStep)

SpecExpiry == Init /\ [][NextExpiry]_vars /\ WF_vars(NextExpiry)

\* Allocation: creates without a custom code, on two handler slots; every
\* awaited store call comes back, so a handler in the loop of
\* generateUniqueShortCode takes its next turn
NextAlloc ==
    \/ \E p \in Procs : StartShorten(p, MaxRequests, URLs, {Null}, {0})
    \/ \E p \in Procs : ShortenGenerate(p)
    \/ \E p \in Procs : ShortenInsert(p)
    \/ \E p \in Procs : ShortenCacheSet(p)

SpecAlloc ==
    /\ Init
    /\ [][NextAlloc]_vars
    /\ \A p \in Procs : WF_vars(ShortenGenerate(p))

-----------------------------------------------------------------------------
(* Properties *)

\* a request's store call failed: the error went to next()
StoreFailed(r) == r.res \in {"StoreError", "IncrementError"}

\* C1: in every reachable state, whatever the interleaving of create requests
\* (generated and custom codes, two handler slots), no two rows of the table
\* urls have the same short_code.
C1_UniqueShortCodes ==
    \A i, j \in 1..Len(urls) :
        i # j => urls[i].short_code # urls[j].short_code

\* two codes are stored and the latest create lost its INSERT to the UNIQUE
\* constraint
C1_Witness == Len(urls) = 2 /\ last.kind = "shorten" /\ last.res = InsertConflict

\* C2: a create request for a custom code that another request has taken (the
\* code is in the store and this request did not create it) is answered
\* AlreadyTaken, whether it lost at the existence check or at the INSERT;
\* validation and store failures apart.
C2_LoserAlreadyTaken ==
    (/\ last.kind = "shorten"
     /\ last.isCustom
     /\ last.rec # "absent"
     /\ last.res \notin {"Created", "ValidationError", "StoreError"})
    => last.res = "AlreadyTaken"

\* C3: a resolve of a code whose record was already expired when the request
\* came in is answered Expired, never with the target URL, cache entry or not;
\* store failures apart.
C3_ExpiredNeverServed ==
    (last.kind = "redirect" /\ last.rec0 = "expired" /\ ~StoreFailed(last))
    => last.res = "Expired"

\* C4: once a create has returned code c for URL u, every resolve of c that
\* came in afterwards and is answered while the record is unexpired redirects
\* to u, from the cache as from the store; store failures apart.
C4_RoundTrip ==
    (/\ last.kind = "redirect"
     /\ last.seen # Null
     /\ last.rec = "live"
     /\ ~StoreFailed(last))
    => (last.res = "Redirect" /\ last.url = last.seen)

\* a resolve that came in after the create returned is answered from the cache
C4_Witness ==
    /\ last.kind = "redirect"
    /\ last.seen # Null
    /\ last.via = "cache"
    /\ last.res = "Redirect"
    /\ last.rec = "live"

\* C5: a resolve none of whose cache calls succeeded (each threw, or the client
\* is absent) is never answered with a cache failure, and for an existing
\* unexpired record it redirects to the record's original_url, read from the
\* store; store failures apart.
C5_FallbackCorrectness ==
    (last.kind = "redirect" /\ ~last.cacheOk)
    => /\ last.res # "CacheError"
       /\ (last.rec = "live" /\ ~StoreFailed(last))
          => /\ last.res = "Redirect"
             /\ last.via = "store"
             /\ last.url = FindByShortCode(last.code).original_url

\* the client is set, every cache call of the resolve threw, and the redirect
\* came from the store
C5_Witness ==
    /\ redisClient
    /\ last.kind = "redirect"
    /\ ~last.cacheOk
    /\ last.res = "Redirect"
    /\ last.via = "store"

\* C6: a resolve that found its record unexpired, in the cache or in the
\* store, redirects to the target whatever becomes of the click increment;
\* failures of the lookup apart.
C6_ClickFailureHarmless ==
    (last.kind = "redirect" /\ last.rec = "live" /\ last.res # "StoreError")
    => last.res = "Redirect"

\* C7: an admit call that cacheIncrement counted as the n-th of its key is
\* Allowed when n <= Max, Denied with retryAfter = the window's seconds when
\* n > Max, and Allowed when the window has elapsed since the key's first call
\* returned.
C7_WindowAdmission ==
    (last.kind = "admit" /\ last.count > 0)
    => /\ last.count <= Max => last.res = "Allowed"
       /\ last.count > Max => (last.res = "Denied" /\ last.n = WindowInSeconds)
       /\ last.age >= WindowInSeconds => last.res = "Allowed"

\* C8: an admit call none of whose cache calls succeeded (INCR threw, or the
\* client is absent) is Allowed, whatever the counter of its key holds.
C8_FailOpen ==
    (last.kind = "admit" /\ ~last.cacheOk) => last.res = "Allowed"

\* the client is set, the key's counter is above the limit, and the call
\* whose INCR threw is let through
C8_Witness ==
    /\ redisClient
    /\ last.kind = "admit"
    /\ ~last.cacheOk
    /\ last.res = "Allowed"
    /\ rateKeys[last.code].count > Max

\* C9: every rate counter key that exists has an expiry armed, at the latest
\* once no handler is left between the INCR that created it and its EXPIRE.
C9_CounterHasExpiry ==
    \A k \in RateKeys :
        (/\ rateKeys[k].count > 0
         /\ \A p \in Procs : ~(pc[p] = "a_expire" /\ rq[p].code = k))
        => rateKeys[k].exp # NoTime

\* C10: all the redirects ever answered for a code name one and the same
\* target, and every resolve answered while the record is unexpired is such a
\* redirect, whatever the cache held or did; store failures apart.
C10_Idempotent ==
    /\ \A c \in Codes : Cardinality(served[c]) <= 1
    /\ (last.kind = "redirect" /\ last.rec = "live" /\ ~StoreFailed(last))
       => (last.res = "Redirect" /\ served[last.code] = {last.url})

\* a resolve answered from the cache after the miss path has counted a click
\* for the same code while a detached increment of a hit is still to run
C10_Witness ==
    /\ last.kind = "redirect"
    /\ last.via = "cache"
    /\ last.res = "Redirect"
    /\ bgInc[last.code] > 0
    /\ FindByShortCode(last.code).click_count > 0

\* C11: generateUniqueShortCode makes at most MaxAttempts existence checks; the
\* code it returns is one the store has just reported absent; it fails with
\* the allocation error exactly when the MaxAttempts-th check in a row reports
\* "exists" (a check that rejects apart); and a handler in the loop leaves it.
C11_BoundedAllocation ==
    /\ [][\A p \in Procs :
            pc[p] = "s_gen" =>
                /\ rq[p].attempts < MaxAttempts
                /\ pc'[p] = "s_insert" => ~Exists(rq'[p].code)
                /\ (pc'[p] = "idle" /\ last'.res = "AllocationError")
                   => rq[p].attempts = MaxAttempts - 1
                /\ (pc'[p] = "idle" /\ rq[p].attempts < MaxAttempts - 1)
                   => last'.res = "StoreError"
                /\ (pc'[p] = "idle" /\ rq[p].attempts = MaxAttempts - 1)
                   => last'.res \in {"AllocationError", "StoreError"}]_vars
    /\ \A p \in Procs : (pc[p] = "s_gen") ~> (pc[p] # "s_gen")

\* both codes are stored and a create has run out of attempts
C11_Witness ==
    /\ Len(urls) = Cardinality(Codes)
    /\ last.kind = "shorten"
    /\ last.res = "AllocationError"

\* C12 as stated: a call of generateUniqueShortCode that comes in after another
\* has returned, and returns while the store holds what it held then, does
\* not return the same code.
C12_DistinctAcrossCalls ==
    [][\A p \in Procs :
        (pc[p] = "s_gen" /\ pc'[p] = "s_insert" /\ rq[p].prev.rows = Len(urls))
        => rq'[p].code # rq[p].prev.code]_vars

\* C12: generateUniqueShortCode returns no code the store holds when it
\* returns; so a call that comes in after another has returned returns a
\* different code once the other's code has been inserted.
C12_FreshAgainstStore ==
    [][\A p \in Procs :
        (pc[p] = "s_gen" /\ pc'[p] = "s_insert")
        => /\ ~HasRow(rq'[p].code)
           /\ HasRow(rq[p].prev.code) => rq'[p].code # rq[p].prev.code]_vars

\* a second call has returned a code other than the stored code of the call
\* before it
C12_Witness ==
    \E p \in Procs :
        /\ pc[p] = "s_insert"
        /\ ~rq[p].isCustom
        /\ HasRow(rq[p].prev.code)
        /\ rq[p].code # rq[p].prev.code

\* C13: on the miss path of redirectUrl, the lookup answers NotFound exactly
\* when the store has no row for the code and goes on to cacheDel and Expired
\* exactly when the row is expired (a rejected lookup apart); no step of these
\* paths changes a row or writes a cache entry; the cacheDel of the Expired
\* path, unless it fails, leaves no entry for the code and touches no other.
C13_MissFailures ==
    [][\A p \in Procs :
        LET c == rq[p].code IN
        /\ (pc[p] = "r_find" /\ pc'[p] # "r_find") =>
              /\ urls' = urls /\ urlCache' = urlCache /\ bgInc' = bgInc
              /\ ~HasRow(c) =>
                    (pc'[p] = "idle" /\ last'.res \in {"NotFound", "StoreError"})
              /\ (HasRow(c) /\ IsExpired(FindByShortCode(c))) =>
                    \/ pc'[p] = "r_del"
                    \/ pc'[p] = "idle" /\ last'.res = "StoreError"
              /\ (pc'[p] = "idle" /\ last'.res = "NotFound") => ~HasRow(c)
              /\ pc'[p] = "r_del" =>
                    (HasRow(c) /\ IsExpired(FindByShortCode(c)))
        /\ (pc[p] = "r_del" /\ pc'[p] # "r_del") =>
              /\ pc'[p] = "idle" /\ last'.res = "Expired" /\ last'.n = 410
              /\ last'.res # "NotFound"
              /\ urls' = urls /\ bgInc' = bgInc
              /\ urlCache' \in {urlCache, [urlCache EXCEPT ![c] = NoEntry]}
              /\ last'.dropped <=> urlCache'[c] # urlCache[c]
              /\ ~redisClient => urlCache' = urlCache]_vars

\* an expired record's entry, which a failed cacheGet had hidden, has been
\* removed on the way to Expired
C13_Witness ==
    /\ last.kind = "redirect"
    /\ last.res = "Expired"
    /\ last.dropped
    /\ urlCache[last.code] = NoEntry

\* C14: when the store lookup of the miss path of redirectUrl, or the INSERT of
\* shortenUrl, is rejected, the request is answered with the store's error
\* (no NotFound, no target, no created record), and the request has written
\* nothing: no row, no cache entry, neither in that step nor in an earlier
\* step of the same request.
C14_StoreErrorsPropagate ==
    [][\A p \in Procs :
        /\ (pc[p] \in {"r_find", "s_insert"} /\ pc'[p] = "idle" /\ last'.dbFailed)
           => /\ last'.res = "StoreError" /\ last'.n = 500 /\ last'.url = Null
              /\ urlCache' = urlCache /\ urls' = urls
              /\ returned' = returned /\ served' = served /\ bgInc' = bgInc
        /\ (pc[p] \in {"s_exists", "s_gen"} /\ pc'[p] = "s_insert")
           => (urlCache' = urlCache /\ urls' = urls)
        /\ (pc[p] = "r_get" /\ pc'[p] = "r_find")
           => (urlCache' = urlCache /\ urls' = urls)]_vars

\* the row exists, its lookup was rejected, and the resolve got the error
C14_Witness ==
    /\ last.kind = "redirect"
    /\ last.dbFailed
    /\ last.res = "StoreError"
    /\ last.rec = "live"

\* C15: a create with a custom code that the store already held when the
\* request came in is answered AlreadyTaken (409), a rejected existence check
\* apart; the step that finds the code ends the request (no retry, no INSERT)
\* and changes neither a row nor a cache entry.
C15_TakenCodeRejected ==
    /\ [](( /\ last.kind = "shorten"
            /\ last.isCustom
            /\ last.rec0 # "absent"
            /\ ~last.dbFailed)
          => (last.res = "AlreadyTaken" /\ last.n = 409))
    /\ [][\A p \in Procs :
            (pc[p] = "s_exists" /\ pc'[p] # "s_exists" /\ Exists(rq[p].code))
            => /\ pc'[p] = "idle"
               /\ last'.res \in {"AlreadyTaken", "StoreError"}
               /\ urls' = urls /\ urlCache' = urlCache
               /\ returned' = returned]_vars

\* the code is taken, the late create was refused, and the record and its
\* cache entry still carry the URL of the create that was answered 201
C15_Witness ==
    /\ last.kind = "shorten"
    /\ last.res = "AlreadyTaken"
    /\ last.rec0 # "absent"
    /\ returned[last.code] # Null
    /\ FindByShortCode(last.code).original_url = returned[last.code]
    /\ urlCache[last.code].val = returned[last.code]

\* C16: a cache entry is gone CACHE_TTL seconds after it was written at the
\* latest; a cache hit leaves the entry as it is; redirectUrl issues a cacheSet
\* only in a step that finds the record unexpired, and the Expired path puts
\* no entry; so a resolve that comes in when the record is expired redirects
\* only from an entry less than CACHE_TTL seconds old, and is answered Expired
\* otherwise (a rejected lookup apart).
C16_StalenessBounded ==
    /\ [](\A c \in Codes :
            urlCache[c].val # Null =>
                (now < urlCache[c].exp /\ urlCache[c].exp <= now + CACHE_TTL))
    /\ []((last.kind = "redirect" /\ last.rec0 = "expired")
          => \/ last.res = "Redirect" /\ last.via = "cache"
             \/ last.res = "Expired"
             \/ last.res = "StoreError")
    /\ [][\A p \in Procs :
            LET c == rq[p].code IN
            /\ (pc[p] = "r_get" /\ pc'[p] # "r_get") => urlCache' = urlCache
            /\ (pc[p] = "r_get" /\ pc'[p] = "idle") =>
                  /\ urlCache[c].val # Null
                  /\ now - (urlCache[c].exp - CACHE_TTL) < CACHE_TTL
            /\ (pc[p] = "r_find" /\ pc'[p] = "r_set") =>
                  ~IsExpired(FindByShortCode(c))
            /\ (pc[p] = "r_del" /\ pc'[p] # "r_del") =>
                  urlCache'[c] = NoEntry \/ urlCache' = urlCache]_vars

\* a resolve that came in after the record's expiry has been answered from an
\* entry that is still within its TTL
C16_Witness ==
    /\ last.kind = "redirect"
    /\ last.rec0 = "expired"
    /\ last.res = "Redirect"
    /\ last.via = "cache"
    /\ urlCache[last.code].val = last.url
    /\ now < urlCache[last.code].exp

\* the requests of key k let through from its i-th admission on and no later
\* than w seconds after it
AdmittedWithin(k, i, w) ==
    {j \in i..Len(admittedAt[k]) : admittedAt[k][j] <= admittedAt[k][i] + w}

\* C17: as long as the client is set and no cache call has thrown, no interval
\* of the window's length holds more than 2 * Max admitted requests of one
\* key.
C17_TwiceLimit ==
    (redisClient /\ ~cacheFailed) =>
        \A k \in RateKeys : \A i \in 1..Len(admittedAt[k]) :
            Cardinality(AdmittedWithin(k, i, WindowMs \div 1000)) <= 2 * Max

\* 2 * Max requests of one key have been let through within one window's
\* length, across a window boundary, and a further one was refused
C17_Witness ==
    /\ redisClient /\ ~cacheFailed
    /\ \E k \in RateKeys : \E i \in 1..Len(admittedAt[k]) :
          /\ Cardinality(AdmittedWithin(k, i, WindowMs \div 1000)) = 2 * Max
          /\ last.kind = "admit" /\ last.code = k /\ last.res = "Denied"

\* C18: every resolve, create and admit request that has started completes
\* with an outcome, also when a cache or store call of it never answers.
C18_EveryRequestCompletes ==
    \A p \in Procs : (pc[p] # "idle") ~> (pc[p] = "idle")

\* C19: no step removes a row of urls or lowers the click_count of a row,
\* whatever creates and resolves run and however they interleave.
C19_ClickCountMonotone ==
    [][/\ Len(urls') >= Len(urls)
       /\ \A i \in 1..Len(urls) :
             /\ urls'[i].short_code = urls[i].short_code
             /\ urls'[i].click_count >= urls[i].click_count]_vars

\* a record has been counted twice, once by a detached increment after a
\* cache hit
C19_Witness ==
    /\ \E i \in 1..Len(urls) : urls[i].click_count >= 2
    /\ last.kind = "redirect" /\ last.via = "cache"

\* click_count of the record of code c, 0 when the table has no such row
ClickCount(c) == IF HasRow(c) THEN FindByShortCode(c).click_count ELSE 0

\* C20: once no detached increment of a code is pending and none of its
\* UPDATEs has rejected, the record's click_count is the number of resolves of
\* the code that were answered with the redirect; NotFound and Expired
\* answers add nothing.
C20_CountedOnce ==
    \A c \in Codes :
        (bgInc[c] = 0 /\ ~updateFailed[c]) => ClickCount(c) = resolved[c]

\* two resolves of a code were answered with the redirect, the later one from
\* the cache, its detached increment has run, and no UPDATE has rejected
C20_Witness ==
    /\ \E c \in Codes :
          resolved[c] >= 2 /\ bgInc[c] = 0 /\ ~updateFailed[c]
    /\ last.kind = "redirect" /\ last.via = "cache" /\ last.res = "Redirect"

\* the awaits of the two controllers
CoreCalls == (StoreCalls \cup CacheCalls) \ {"a_expire", "a_incr"}

\* C21: the step in which the limiter answers a request with 429 leaves the
\* table, the URL cache entries and the pending click increments as they are
\* and calls no next(); and a controller starts its first call only for a
\* request whose limiter called next().
C21_DeniedStopsAtLimiter ==
    [][\A p \in Procs :
         /\ (/\ pc[p] \in {"a_expire", "a_incr"}
             /\ pc'[p] = "idle"
             /\ last'.res = "Denied")
            => /\ urls' = urls /\ urlCache' = urlCache /\ bgInc' = bgInc
               /\ ~nextCalled'[p]
               /\ rateKeys'[rq[p].code].count = rateKeys[rq[p].code].count + 1
         /\ (pc[p] = "idle" /\ pc'[p] \in CoreCalls) => nextCalled[p]]_vars

\* a request has just been refused while the table holds a record and the
\* other handler is inside a controller
C21_Witness ==
    /\ last.kind = "admit" /\ last.res = "Denied"
    /\ Len(urls) >= 1
    /\ \E p, q \in Procs :
          pc[p] = "idle" /\ ~nextCalled[p] /\ pc[q] \in CoreCalls

\* C22: a create whose record has been inserted is answered Created with its
\* URL whatever becomes of the cacheSet; when the client is absent or the
\* call throws, the cache is left as it was and the row is in the table.
C22_CreateSurvivesCache ==
    [][\A p \in Procs :
         (pc[p] = "s_cache" /\ pc'[p] = "idle")
         => /\ last'.res = "Created" /\ last'.url = rq[p].url
            /\ urls' = urls
            /\ HasRow(rq[p].code)
            /\ FindByShortCode(rq[p].code).original_url = rq[p].url
            /\ ~last'.cacheOk => urlCache' = urlCache]_vars

\* a create was answered Created although its cacheSet threw on a client
\* that is set: the row is there, the cache entry is not
C22_Witness ==
    /\ redisClient
    /\ last.kind = "shorten" /\ last.res = "Created" /\ ~last.cacheOk
    /\ HasRow(last.code)
    /\ FindByShortCode(last.code).original_url = last.url
    /\ urlCache[last.code] = NoEntry

\* the characters 0-9, A-Z, a-z
AlphaNum ==
    {"0", "1", "2", "3", "4", "5", "6", "7", "8", "9"}
    \cup {"A", "B", "C", "D", "E", "F", "G", "H", "I", "J", "K", "L", "M",
          "N", "O", "P", "Q", "R", "S", "T", "U", "V", "W", "X", "Y", "Z"}
    \cup {"a", "b", "c", "d", "e", "f", "g", "h", "i", "j", "k", "l", "m",
          "n", "o", "p", "q", "r", "s", "t", "u", "v", "w", "x", "y", "z"}

\* C23: a call generate(n) with n >= 1 returns n characters and a call
\* without argument returns 7, each of them one of the 62 distinct characters
\* 0-9, A-Z, a-z of the alphabet; the call leaves the table, the cache and the
\* rate counters as they are.
C23_GenerateLength ==
    [][(gen.op = "none" /\ gen'.op = "generate")
       => /\ gen'.done
          /\ gen'.arg >= 1 => Len(gen'.out) = gen'.arg
          /\ gen'.arg = NoArg => Len(gen'.out) = 7
          /\ \A i \in 1..Len(gen'.out) : gen'.out[i] \in AlphaNum
          /\ {BASE62_ALPHABET[i] : i \in 1..Len(BASE62_ALPHABET)} = AlphaNum
          /\ Len(BASE62_ALPHABET) = 62 /\ Cardinality(AlphaNum) = 62
          /\ UNCHANGED <<urls, urlCache, rateKeys, bgInc>>]_vars

\* generate(MaxLen) has returned MaxLen characters, not all the same
C23_Witness ==
    /\ gen.op = "generate" /\ gen.done
    /\ gen.arg = MaxLen /\ Len(gen.out) = MaxLen
    /\ gen.out[1] # gen.out[MaxLen]

\* C24: generateBatch(n, length) returns n codes, no two of them equal, each
\* of length characters; and a call with n no larger than the number of codes
\* of that length does return.
C24_BatchDistinct ==
    /\ [](gen.op = "batch" /\ gen.done
          => /\ Len(gen.codes) = gen.count
             /\ \A i, j \in 1..Len(gen.codes) :
                   i # j => gen.codes[i] # gen.codes[j]
             /\ \A i \in 1..Len(gen.codes) : Len(gen.codes[i]) = gen.arg)
    /\ (gen.op = "batch" /\ gen.count <= Cardinality(CustomAlphabet(gen.size)))
          ~> gen.done

\* generateBatch has returned as many codes of length 1 as there are
C24_Witness ==
    /\ gen.op = "batch" /\ gen.done
    /\ gen.arg = 1
    /\ gen.count = Cardinality(CustomAlphabet(1))
    /\ Len(gen.codes) = gen.count

\* C25: a record whose expiration has passed is eventually gone from the
\* table.
C25_ExpiredEventuallyDeleted ==
    \A c \in Codes :
        (HasRow(c) /\ IsExpired(FindByShortCode(c))) ~> ~HasRow(c)

\* C26: whenever the cache holds an entry for a code, the table holds a row of
\* that code and the entry's value is the row's original_url; so no entry is
\* written before its row is inserted.
C26_CacheProjectsStore ==
    \A c \in Codes :
        urlCache[c] # NoEntry
        => /\ HasRow(c)
           /\ urlCache[c].val = FindByShortCode(c).original_url

\* the cache holds the winner's entry right after a second create of the same
\* code lost at the INSERT
C26_Witness ==
    /\ last.kind = "shorten" /\ last.res = InsertConflict
    /\ urlCache[last.code] # NoEntry
    /\ urlCache[last.code].val = FindByShortCode(last.code).original_url

\* C27: a create whose INSERT is rejected, by the unique constraint or by a
\* store error, ends there with the table and the cache as they were; and the
\* cacheSet of a create writes, under its own code only, the original_url of
\* the row the table holds for that code: the loser of a race never puts its
\* URL over the winner's entry.
C27_RejectedInsertWritesNothing ==
    [][\A p \in Procs :
         /\ (pc[p] = "s_insert" /\ pc'[p] = "idle")
            => /\ last'.res \in {InsertConflict, "StoreError"}
               /\ urlCache' = urlCache
               /\ urls' = urls
         /\ (pc[p] = "s_cache" /\ pc'[p] = "idle")
            => \A c \in Codes :
                 urlCache'[c] # urlCache[c]
                 => /\ c = rq[p].code
                    /\ urlCache'[c].val = FindByShortCode(c).original_url]_vars

\* a create that started when the code was free has lost the INSERT to a
\* concurrent one, and the cache holds what the winner was answered
C27_Witness ==
    /\ last.kind = "shorten" /\ last.res = InsertConflict
    /\ last.rec0 = "absent"
    /\ returned[last.code] # Null
    /\ urlCache[last.code].val = returned[last.code]

\* C28: a resolve issues cacheGet first; a hit answers the cached value in that
\* step, with the table and the cache untouched; findByShortCode is issued
\* only after cacheGet, and after a cacheGet that succeeded only when the key
\* was missing; and a cacheSet of the miss path that succeeded leaves the
\* entry code -> original_url, on which a later cacheGet hits.
C28_CacheAside ==
    [][\A p \in Procs :
         /\ (pc[p] = "idle" /\ rq'[p].kind = "redirect") => pc'[p] = "r_get"
         /\ (pc[p] = "r_get" /\ pc'[p] = "idle" /\ last'.res = "Redirect")
            => /\ last'.via = "cache"
               /\ last'.url = urlCache[rq[p].code].val
               /\ urls' = urls /\ urlCache' = urlCache
         /\ (pc[p] # "r_find" /\ pc'[p] = "r_find") => pc[p] = "r_get"
         /\ (pc[p] = "r_get" /\ pc'[p] = "r_find" /\ rq'[p].cacheOk)
            => urlCache[rq[p].code] = NoEntry
         /\ (pc[p] = "r_set" /\ pc'[p] = "r_inc" /\ rq'[p].stored)
            => /\ urlCache'[rq[p].code].val = rq[p].url
               /\ rq[p].url = FindByShortCode(rq[p].code).original_url]_vars

\* a resolve went to the store and put the entry, and the next resolve of the
\* code was answered from the cache
C28_Witness ==
    /\ last.kind = "redirect" /\ last.via = "cache" /\ last.res = "Redirect"
    /\ resolved[last.code] = 2
    /\ ClickCount(last.code) = 1 /\ bgInc[last.code] = 1
    /\ ~updateFailed[last.code]
    /\ last.url = FindByShortCode(last.code).original_url

\* C29: every cacheIncrement that succeeds observes the counter one above
\* what it was, whichever handler runs it and whatever the others are doing,
\* so no two calls on one counter observe the same count; and as long as the
\* client is set and no cache call has thrown, no more than Max requests are
\* let through while one counter exists.
C29_DistinctCounts ==
    /\ []((redisClient /\ ~cacheFailed)
          => \A k \in RateKeys : rateKeys[k].admits <= Max)
    /\ [][\A p \in Procs :
            /\ (pc[p] = "a_incr" /\ pc'[p] = "a_expire")
               => /\ rq'[p].count = rateKeys[rq[p].code].count + 1
                  /\ rq'[p].count = rateKeys'[rq[p].code].count
            /\ (pc[p] = "a_incr" /\ pc'[p] = "idle" /\ last'.cacheOk)
               => /\ last'.count = rateKeys[rq[p].code].count + 1
                  /\ last'.count = rateKeys'[rq[p].code].count]_vars

\* two calls on one key in flight together: the first has its count and is
\* about to arm the expiry, the second has been counted after it and refused
C29_Witness ==
    /\ redisClient /\ ~cacheFailed
    /\ last.kind = "admit" /\ last.res = "Denied"
    /\ last.count = Max + 1
    /\ \E p \in Procs :
          pc[p] = "a_expire" /\ rq[p].code = last.code /\ rq[p].count = 1

\* C30: a step of the limiter for one key changes the counter of that key at
\* most: the count, the expiry and the existence of every other counter, and
\* every cached link, are what they were before the step.
C30_CountersIndependent ==
    [][\A p \in Procs :
         (pc[p] \in {"a_expire", "a_incr"} /\ pc'[p] # pc[p])
         => /\ \A k \in RateKeys \ {rq[p].code} : rateKeys'[k] = rateKeys[k]
            /\ urlCache' = urlCache]_vars

\* the limiter has counted a request of one client on one path while the
\* same client's other path and the other client's counter stand at other
\* values with an expiry armed, and a link is cached
C30_Witness ==
    /\ last.kind = "admit" /\ last.cacheOk
    /\ last.code = "ratelimit:ip1:/a"
    /\ rateKeys["ratelimit:ip1:/a"].count = 1
    /\ rateKeys["ratelimit:ip1:/b"].count = 1
    /\ rateKeys["ratelimit:ip1:/b"].exp # NoTime
    /\ rateKeys["ratelimit:ip2:/a"].count = 1
    /\ rateKeys["ratelimit:ip2:/a"].exp # NoTime
    /\ rateKeys["ratelimit:ip1:/b"].exp # rateKeys["ratelimit:ip2:/a"].exp
    /\ \E c \in Codes : urlCache[c].val # Null

\* C31: the expiry of a counter is armed only by the call whose increment
\* returned 1 and no other step of the limiter changes it, refused calls
\* raise the count, and a call counted once the window's seconds have passed
\* since the first call of the window returned is Allowed.
C31_WindowFixedByFirst ==
    /\ []((last.kind = "admit" /\ last.cacheOk /\ last.age >= WindowInSeconds)
          => last.res = "Allowed")
    /\ [][\A p \in Procs :
            (pc[p] \in {"a_expire", "a_incr"} /\ pc'[p] # pc[p])
            => /\ rateKeys'[rq[p].code].exp # rateKeys[rq[p].code].exp
                  => (pc[p] = "a_expire" /\ rq[p].count = 1)
               /\ (pc'[p] = "idle" /\ last'.res = "Denied")
                  => rateKeys'[rq[p].code].count
                         = rateKeys[rq[p].code].count + 1]_vars

\* C32: whatever window the limiter was built with, the retryAfter of a
\* refusal is the number of seconds the expiry of the counter was armed with.
C32_RetryAfterIsExpiry ==
    (/\ last.kind = "admit" /\ last.res = "Denied"
     /\ rateKeys[last.code].exp # NoTime)
    => last.n = rateKeys[last.code].exp - rateKeys[last.code].born

\* C33: the code a create carries to its INSERT is the one the allocator
\* returned to it; the INSERT either appends one row with that code or leaves
\* the table as it was and the request ends with an error; when another
\* request has inserted the generated code since the allocator's check, the
\* INSERT is refused, the request ends with the conflict error and does not
\* go back to the allocator.
C33_InsertOrFail ==
    [][\A p \in Procs :
        /\ (pc[p] = "s_gen" /\ pc'[p] = "s_insert")
           => (rq'[p].code = lastAlloc'.code /\ ~Exists(rq'[p].code))
        /\ (pc[p] = "s_insert" /\ pc'[p] # pc[p])
           => /\ \/ /\ pc'[p] = "s_cache"
                    /\ Len(urls') = Len(urls) + 1
                    /\ urls'[Len(urls')].short_code = rq[p].code
                    /\ SubSeq(urls', 1, Len(urls)) = urls
                 \/ /\ pc'[p] = "idle"
                    /\ urls' = urls
                    /\ last'.kind = "shorten"
                    /\ last'.res \in {"StoreError", InsertConflict}
              /\ (\E i \in 1..Len(urls) : urls[i].short_code = rq[p].code)
                 => (pc'[p] = "idle" /\ urls' = urls)]_vars

\* a create whose generated code was inserted by another request before its
\* own INSERT has ended with the conflict error, and the other's row is the
\* only one of that code
C33_Witness ==
    /\ last.kind = "shorten" /\ last.res = InsertConflict
    /\ ~last.isCustom
    /\ Cardinality(RowsOf(last.code)) = 1
    /\ \A p \in Procs : pc[p] # "s_gen"

\* the columns that make a record what it is
Identity(row) ==
    [short_code |-> row.short_code, original_url |-> row.original_url,
     created_at |-> row.created_at, expires_at |-> row.expires_at,
     is_custom |-> row.is_custom]

\* C34: a step adds a row only as the INSERT of a create, and then exactly
\* one; a create answers 201 with exactly one row of its code in the table;
\* no step removes a row or changes the code, target, creation time, expiry
\* or custom flag of one; and a row changes only by the click-count UPDATE of
\* a resolve of its own code.
C34_RecordImmutable ==
    [][/\ IF \E p \in Procs : pc[p] = "s_insert" /\ pc'[p] = "s_cache"
          THEN Len(urls') = Len(urls) + 1
          ELSE Len(urls') = Len(urls)
       /\ \A i \in 1..Len(urls) :
            /\ Identity(urls'[i]) = Identity(urls[i])
            /\ urls'[i] # urls[i]
               => \/ \E p \in Procs : /\ pc[p] = "r_inc" /\ pc'[p] # pc[p]
                                       /\ rq[p].code = urls[i].short_code
                  \/ bgInc'[urls[i].short_code] < bgInc[urls[i].short_code]
       /\ \A p \in Procs :
            (pc[p] = "s_cache" /\ pc'[p] = "idle")
            => /\ last'.res = "Created"
               /\ urls' = urls
               /\ Cardinality(RowsOf(rq[p].code)) = 1]_vars

\* two records; one has been resolved some time after it was created and
\* carries the click and the time of it, the other is as it was inserted
C34_Witness ==
    /\ last.kind = "redirect" /\ last.res = "Redirect"
    /\ \E i, j \in 1..Len(urls) :
          /\ urls[i].short_code = last.code
          /\ urls[i].click_count > 0
          /\ urls[i].last_accessed > urls[i].created_at
          /\ urls[j].short_code # last.code
          /\ urls[j].click_count = 0
          /\ urls[j].last_accessed = NoTime

\* C35: the expiry a create computes is none when expirationDays is absent or
\* 0 and otherwise the time of the computation plus expirationDays days, the
\* row is inserted with that expiry, and a resolve answers Expired only for a
\* record that carries an expiry.
C35_ExpiresAt ==
    /\ []((last.kind = "redirect" /\ last.res = "Expired")
          => /\ HasRow(last.code)
             /\ FindByShortCode(last.code).expires_at # NoTime)
    /\ [][\A p \in Procs :
            /\ (pc[p] \in {"s_exists", "s_gen"} /\ pc'[p] = "s_insert")
               => rq'[p].expiresAt =
                    IF rq[p].days = 0 /\ rq[p].tenths = 0 THEN NoTime
                    ELSE now + ((10 * rq[p].days + rq[p].tenths) * DaySeconds)
                                 \div 10
            /\ (pc[p] = "s_insert" /\ pc'[p] = "s_cache")
               => urls'[Len(urls')].expires_at = rq[p].expiresAt]_vars

\* C36: a create whose URL, custom code or expirationDays is invalid never
\* reaches the INSERT or the cache write, and the step that answers the
\* validation error, at the start of the request or after its code has been
\* checked or generated, leaves the table and the cache as they were.
C36_RejectedWritesNothing ==
    /\ [](\A p \in Procs :
            pc[p] \in {"s_cache", "s_exists", "s_gen", "s_insert"}
            => /\ rq[p].url \in URLs
               /\ rq[p].isCustom => rq[p].code \in Codes
               /\ pc[p] \in {"s_cache", "s_insert"}
                  => rq[p].days \in 0..MaxExpirationDays)
    /\ [][(/\ last'.kind = "shorten" /\ last'.res = "ValidationError"
           /\ \/ nreq' # nreq /\ pc' = pc
              \/ \E p \in Procs : pc[p] # "idle" /\ pc'[p] = "idle")
          => /\ urls' = urls
             /\ urlCache' = urlCache
             /\ \A p \in Procs :
                   pc'[p] # pc[p] => pc[p] \in {"s_exists", "s_gen"}]_vars

\* a create was refused for its expirationDays after its code had been
\* checked or generated; no row and no cache entry of that code exists
C36_Witness ==
    /\ last.kind = "shorten" /\ last.res = "ValidationError"
    /\ last.code # Null
    /\ ~HasRow(last.code)
    /\ urlCache[last.code].val = Null

\* C37: no create is answered with the record its URL already has; the code
\* of a 201 has not been given by a 201 before and has exactly one row, which
\* holds the URL of the request, whatever other codes hold that URL; and
\* every redirect of a code names the URL of its record.
C37_SeveralCodesPerUrl ==
    /\ [](/\ last.kind = "shorten" => last.res # "Existing"
          /\ \A c \in Codes :
                /\ returned[c] # Null
                   => /\ Cardinality(RowsOf(c)) = 1
                      /\ FindByShortCode(c).original_url = returned[c]
                /\ served[c] # {}
                   => /\ HasRow(c)
                      /\ served[c] = {FindByShortCode(c).original_url})
    /\ [][\A p \in Procs :
            (pc[p] = "s_cache" /\ pc'[p] = "idle")
            => /\ returned[rq[p].code] = Null
               /\ returned'[rq[p].code] = rq[p].url]_vars

\* the same URL has been created twice, under two codes, and each of the
\* codes has been resolved to it
C37_Witness ==
    /\ returned["c1"] = "u1" /\ returned["c2"] = "u1"
    /\ served["c1"] = {"u1"} /\ served["c2"] = {"u1"}
    /\ Len(urls) = 2

====
